---- MODULE Spec2Model ----
(***************************************************************************)
(* Shopping cart of the VibeCart backend: the Cart model (models/Cart.js), *)
(* the cart routes (routes/cart.js) and the catalog writes of              *)
(* routes/products.js that the cart reads.                                 *)
(*                                                                         *)
(* Every `await` of a handler on the database is one step, so two requests *)
(* interleave exactly where the event loop lets them.  A document that a   *)
(* handler loaded is a private copy; save() validates the copy against the *)
(* schema, runs the pre('save') hook and then writes to the collection     *)
(* what the copy changed: an insert for a new document, otherwise an       *)
(* update of the changed paths ($push for an appended item, $set of        *)
(* items.<i>.quantity guarded by the version key __v, $set of the whole    *)
(* array guarded by __v and incrementing it).  A failed validation, a      *)
(* failed version guard and a duplicate key on the unique index make       *)
(* save() throw, which the handlers answer with 500.                       *)
(* The read that follows a save (Cart.findById(...).populate) only fills   *)
(* the response body, which the model does not keep; `last` keeps who      *)
(* asked what and the status, until the next request arrives.              *)
(* Prices are in cents (9.99 is 999); quantities are integers.             *)
(***************************************************************************)
EXTENDS Integers, Sequences, FiniteSets, TLC

\* ---------------------------------------------------------------- bounds
\* Number of requests (cart requests and catalog writes) issued in a run.
MaxOps == 3

\* ------------------------------------------------------- program constants
MinQuantity == 1
MaxQuantity == 100
MinPrice == 0
DefaultQuantity == 1

\* ------------------------------------------------------------ input sets
Users == {"u1", "u2"}
ProductIds == {"p1", "p2"}
NoId == "none"
QtyInputs == {-1, 0, 2, 150}
\* req.body of a cart request: <<q>> carries quantity q, <<>> carries none
Bodies == {<<>>} \cup {<<q>> : q \in QtyInputs}
PriceInputs == {999, 1500}
StockInputs == {2, 200}
Slots == {1, 2}

VARIABLES
    users,      \* the registered accounts: the identities `protect` lets through
    products,   \* the catalog: per product id its state, price and stock
    carts,      \* the carts collection, in insertion order
    req,        \* per slot, the request a handler is serving
    last,       \* the response sent since the last request arrived, if any
    nops        \* number of requests issued so far

vars == <<users, products, carts, req, last, nops>>

\* ------------------------------------------------------------ Cart model

\* cartSchema.pre('save'): totalItems
RECURSIVE TotalItems(_)
TotalItems(items) ==
    IF items = <<>> THEN 0
    ELSE Head(items).quantity + TotalItems(Tail(items))

\* cartSchema.pre('save'): totalPrice
RECURSIVE TotalPrice(_)
TotalPrice(items) ==
    IF items = <<>> THEN 0
    ELSE Head(items).price * Head(items).quantity + TotalPrice(Tail(items))

\* this.items.find(item => item.product.toString() === productId.toString()):
\* the index of the first item of the product, 0 when there is none
FindItem(items, p) ==
    IF \E i \in 1..Len(items) : items[i].product = p
    THEN CHOOSE i \in 1..Len(items) :
            /\ items[i].product = p
            /\ \A j \in 1..(i-1) : items[j].product # p
    ELSE 0

\* this.items.filter(item => item.product.toString() !== productId.toString())
FilterOut(items, p) == SelectSeq(items, LAMBDA it : it.product # p)

\* (mutant) the schema without the min validator of quantity
ValidItemNoMin(it) ==
    /\ it.quantity <= MaxQuantity
    /\ it.price >= MinPrice

\* cartItemSchema validators (quantity min/max, price min), run by save()
ValidItem(it) ==
    /\ it.quantity >= MinQuantity
    /\ it.quantity <= MaxQuantity
    /\ it.price >= MinPrice

ValidItems(items) == \A i \in 1..Len(items) : ValidItem(items[i])

\* (mutant) addItem putting a new item in front of the others
AddItemMemInFront(items, p, q, price) ==
    LET i == FindItem(items, p) IN
    IF i # 0
    THEN LET s == items[i].quantity + q IN
         [items EXCEPT ![i].quantity = IF s > MaxQuantity THEN MaxQuantity ELSE s]
    ELSE <<[product |-> p, quantity |-> q, price |-> price]>> \o items

\* (mutant) addItem without the clamp of the merged quantity
AddItemMemNoClamp(items, p, q, price) ==
    LET i == FindItem(items, p) IN
    IF i # 0
    THEN [items EXCEPT ![i].quantity = items[i].quantity + q]
    ELSE Append(items, [product |-> p, quantity |-> q, price |-> price])

\* addItem, the part before save(): the items of the in-memory document
AddItemMem(items, p, q, price) ==
    LET i == FindItem(items, p) IN
    IF i # 0
    THEN LET s == items[i].quantity + q IN
         [items EXCEPT ![i].quantity = IF s > MaxQuantity THEN MaxQuantity ELSE s]
    ELSE Append(items, [product |-> p, quantity |-> q, price |-> price])

\* (mutant) updateItemQuantity rebuilding the item without its snapshot price
UpdateItemMemNewItem(items, p, q) ==
    LET i == FindItem(items, p) IN
    IF q <= 0 THEN FilterOut(items, p)
    ELSE [items EXCEPT ![i] = [product |-> p,
                               quantity |-> IF q < MaxQuantity THEN q ELSE MaxQuantity,
                               price |-> MinPrice]]

\* (mutant) updateItemQuantity without Math.min(quantity, 100)
UpdateItemMemNoClamp(items, p, q) ==
    LET i == FindItem(items, p) IN
    IF q <= 0 THEN FilterOut(items, p)
    ELSE [items EXCEPT ![i].quantity = q]

\* updateItemQuantity, the part before save() when the item was found
UpdateItemMem(items, p, q) ==
    LET i == FindItem(items, p) IN
    IF q <= 0 THEN FilterOut(items, p)
    ELSE [items EXCEPT ![i].quantity = IF q < MaxQuantity THEN q ELSE MaxQuantity]

\* (mutant) removeItem that filters nothing out
RemoveItemMemKeepsAll(items, p) == items

\* removeItem, the part before save()
RemoveItemMem(items, p) == FilterOut(items, p)

\* (mutant) clearCart that leaves the items in place
ClearCartMemKeepsItems(items) == items

\* clearCart, the part before save()
ClearCartMem(items) == <<>>

\* ------------------------------------------------------------ collection

\* (mutant) a findOne without the user filter: the first cart of the collection
FindAnyCart(cs, u) == IF cs = <<>> THEN 0 ELSE 1

\* Cart.findOne({ user }): index of the user's first cart document, 0 if none
FindOne(cs, u) ==
    IF \E i \in 1..Len(cs) : cs[i].user = u
    THEN CHOOSE i \in 1..Len(cs) :
            /\ cs[i].user = u
            /\ \A j \in 1..(i-1) : cs[j].user # u
    ELSE 0

\* (mutant) the collection without the unique index
NoUniqueIndex(cs, u) == TRUE

\* unique index on Cart.user: an insert for a user that has a cart is rejected
UniqueUserOk(cs, u) == \A i \in 1..Len(cs) : cs[i].user # u

\* the document an insert stores: save() of a new document, pre('save') run
NewCartDoc(u, items) ==
    [user |-> u, items |-> items,
     totalItems |-> TotalItems(items), totalPrice |-> TotalPrice(items), v |-> 0]

\* How save() writes the items of a loaded document that the handler changed
\* from `old` to `new`:
\*   "none"   nothing changed
\*   "push"   one item appended: $push, __v incremented, no version guard
\*   "setq"   fields of existing items changed: $set items.<i>.<field>,
\*            guarded by __v
\*   "setarr" the array was reassigned: $set items, guarded by __v and
\*            incrementing it
DeltaKind(old, new) ==
    IF new = old THEN "none"
    ELSE IF Len(new) = Len(old) + 1 /\ SubSeq(new, 1, Len(old)) = old THEN "push"
    ELSE IF Len(new) = Len(old) THEN "setq"
    ELSE "setarr"

\* (mutant) optimistic concurrency on every write: any save() of a copy that
\* is older than the stored document is rejected
VersionOkAlways(kind, dbv, loadedv) == dbv = loadedv

\* the version guard of an update: the stored __v must be the loaded one
VersionOk(kind, dbv, loadedv) ==
    kind \in {"setq", "setarr"} => dbv = loadedv

\* the items the update leaves in the stored document c
WriteItems(kind, c, old, new) ==
    CASE kind = "none"   -> c.items
      [] kind = "push"   -> Append(c.items, new[Len(new)])
      [] kind = "setq"   -> [i \in 1..Len(c.items) |->
                               [product |-> c.items[i].product,
                                quantity |-> IF new[i].quantity # old[i].quantity
                                             THEN new[i].quantity ELSE c.items[i].quantity,
                                price |-> IF new[i].price # old[i].price
                                          THEN new[i].price ELSE c.items[i].price]]
      [] kind = "setarr" -> new

\* the stored document after save() of a loaded document d whose items the
\* handler changed to `new`: totals are written when pre('save') changed them
WriteDoc(c, d, new) ==
    LET kind == DeltaKind(d.items, new) IN
    [user |-> c.user,
     items |-> WriteItems(kind, c, d.items, new),
     totalItems |-> IF TotalItems(new) # d.totalItems
                    THEN TotalItems(new) ELSE c.totalItems,
     totalPrice |-> IF TotalPrice(new) # d.totalPrice
                    THEN TotalPrice(new) ELSE c.totalPrice,
     v |-> IF kind \in {"push", "setarr"} THEN c.v + 1 ELSE c.v]

\* ------------------------------------------------------------ requests

Idle ==
    [pc |-> "idle", op |-> "none", user |-> NoId, product |-> NoId, qty |-> 0,
     price |-> 0, stock |-> 0, cid |-> 0,
     doc |-> [items |-> <<>>, totalItems |-> 0, totalPrice |-> 0, v |-> 0]]

NoResponse ==
    [op |-> "none", user |-> NoId, product |-> NoId, qty |-> 0, status |-> 0]

Response(op, u, p, q, status) ==
    [op |-> op, user |-> u, product |-> p, qty |-> q, status |-> status]

\* the loaded copy of stored document i
Loaded(cs, i) ==
    [items |-> cs[i].items, totalItems |-> cs[i].totalItems,
     totalPrice |-> cs[i].totalPrice, v |-> cs[i].v]

\* new Cart({ user, items: [] }) before its first save
FreshDoc == [items |-> <<>>, totalItems |-> 0, totalPrice |-> 0, v |-> 0]

\* The database a run starts from: accounts and products exist (registration
\* and product creation are not cart operations).  Either one shopper and two
\* products, or two shoppers and one product; the first shopper has no cart
\* yet or the empty cart a GET /api/cart created.
NoProduct == [state |-> "none", price |-> 0, stock |-> 0]
Gone == [state |-> "deleted", price |-> 0, stock |-> 0]
P1 == [state |-> "live", price |-> 999, stock |-> 2]
P2 == [state |-> "live", price |-> 1500, stock |-> 200]

Init ==
    /\ \/ /\ users = {"u1"}
          /\ products = [p \in ProductIds |-> IF p = "p1" THEN P1 ELSE P2]
       \/ /\ users = Users
          /\ products = [p \in ProductIds |-> IF p = "p1" THEN P1 ELSE NoProduct]
    /\ carts \in {<<>>, <<NewCartDoc("u1", <<>>)>>}
    /\ req = [r \in Slots |-> Idle]
    /\ last = NoResponse
    /\ nops = 0

\* a response ends the request of slot r
Respond(r, status) ==
    /\ req' = [req EXCEPT ![r] = Idle]
    /\ last' = Response(req[r].op, req[r].user, req[r].product, req[r].qty, status)

\* (mutant) save() that deletes the document when its items become empty
SaveLoadedDropsEmpty(r, new, okStatus) ==
    LET d == req[r].doc
        i == req[r].cid
        kind == DeltaKind(d.items, new)
    IN IF ~ValidItems(new) \/ ~VersionOk(kind, carts[i].v, d.v) THEN
            /\ Respond(r, 500)
            /\ UNCHANGED carts
       ELSE IF new = <<>> THEN
            /\ carts' = SubSeq(carts, 1, i - 1) \o SubSeq(carts, i + 1, Len(carts))
            /\ Respond(r, okStatus)
       ELSE
            /\ carts' = [carts EXCEPT ![i] = WriteDoc(carts[i], d, new)]
            /\ Respond(r, okStatus)

\* save() of slot r's loaded document with its items changed to `new`;
\* the response is okStatus when the write went through, 500 when save() threw
SaveLoaded(r, new, okStatus) ==
    LET d == req[r].doc
        i == req[r].cid
        kind == DeltaKind(d.items, new)
    IN IF ~ValidItems(new) THEN
            /\ Respond(r, 500)
            /\ UNCHANGED carts
       ELSE IF ~VersionOk(kind, carts[i].v, d.v) THEN
            /\ Respond(r, 500)
            /\ UNCHANGED carts
       ELSE
            /\ carts' = [carts EXCEPT ![i] = WriteDoc(carts[i], d, new)]
            /\ Respond(r, okStatus)

\* (mutant) the cart of a user without cart inserted before its items are
\* validated: a request that fails the validation leaves an empty cart behind
SaveNewCreatesFirst(r, items, okStatus) ==
    IF ~UniqueUserOk(carts, req[r].user) THEN
        /\ Respond(r, 500)
        /\ UNCHANGED carts
    ELSE IF ~ValidItems(items) THEN
        /\ carts' = Append(carts, NewCartDoc(req[r].user, <<>>))
        /\ Respond(r, 500)
    ELSE
        /\ carts' = Append(carts, NewCartDoc(req[r].user, items))
        /\ Respond(r, okStatus)

\* save() of a new document (insert)
SaveNew(r, items, okStatus) ==
    IF ~ValidItems(items) \/ ~UniqueUserOk(carts, req[r].user) THEN
        /\ Respond(r, 500)
        /\ UNCHANGED carts
    ELSE
        /\ carts' = Append(carts, NewCartDoc(req[r].user, items))
        /\ Respond(r, okStatus)

\* (mutant) the stock check rejecting a request for all that is in stock
AddStockShortOrEqual(stock, q) == stock <= q

\* POST /add: product.stock < quantity
AddStockShort(stock, q) == stock < q

\* (mutant) PUT /update without its stock check
UpdateStockShortNever(stock, q) == FALSE

\* (mutant) the stock check of PUT /update refusing all that is in stock
UpdateStockShortOrEqual(stock, q) == q >= stock

\* PUT /update: quantity > product.stock
UpdateStockShort(stock, q) == q > stock

\* a new request runs in the first slot that serves no request
FreeSlot(r) ==
    /\ req[r].pc = "idle"
    /\ \A s \in Slots : s < r => req[s].pc # "idle"

\* GET /api/cart: Cart.findOne; answers at once when the cart exists
GetStart(r, u) ==
    /\ FreeSlot(r)
    /\ nops < MaxOps
    /\ nops' = nops + 1
    /\ IF FindOne(carts, u) # 0
       THEN /\ req' = req
            /\ last' = Response("get", u, NoId, 0, 200)
       ELSE /\ req' = [req EXCEPT ![r] = [Idle EXCEPT !.pc = "create", !.op = "get", !.user = u]]
            /\ last' = NoResponse
    /\ UNCHANGED <<products, carts, users>>

\* GET /api/cart: Cart.create({ user, items: [] })
GetCreate(r) ==
    /\ req[r].pc = "create"
    /\ SaveNew(r, <<>>, 200)
    /\ UNCHANGED <<users, products, nops>>

\* POST /api/cart/add: body checks, Product.findById, stock check
AddStart(r, u, p, body) ==
    /\ FreeSlot(r)
    /\ nops < MaxOps
    /\ nops' = nops + 1
    /\ LET q == IF body = <<>> THEN DefaultQuantity ELSE body[1] IN
       IF p = NoId THEN
            /\ req' = req
            /\ last' = Response("add", u, p, q, 400)
       ELSE IF products[p].state # "live" THEN
            /\ req' = req
            /\ last' = Response("add", u, p, q, 404)
       ELSE IF AddStockShort(products[p].stock, q) THEN
            /\ req' = req
            /\ last' = Response("add", u, p, q, 400)
       ELSE
            /\ req' = [req EXCEPT ![r] = [Idle EXCEPT !.pc = "findCart", !.op = "add",
                          !.user = u, !.product = p, !.qty = q,
                          !.price = products[p].price, !.stock = products[p].stock]]
            /\ last' = NoResponse
    /\ UNCHANGED <<products, carts, users>>

\* POST /api/cart/add: Cart.findOne, or new Cart when there is none
AddFindCart(r) ==
    /\ req[r].pc = "findCart"
    /\ req[r].op = "add"
    /\ LET i == FindOne(carts, req[r].user) IN
       req' = [req EXCEPT ![r].pc = "save", ![r].cid = i,
                          ![r].doc = IF i = 0 THEN FreshDoc ELSE Loaded(carts, i)]
    /\ UNCHANGED <<users, products, carts, last, nops>>

\* (mutant) an addToCart that takes what it adds out of the product's stock
AddSaveReservesStock(r) ==
    /\ req[r].pc = "save"
    /\ req[r].op = "add"
    /\ LET new == AddItemMem(req[r].doc.items, req[r].product, req[r].qty, req[r].price) IN
       IF req[r].cid = 0 THEN SaveNew(r, new, 200) ELSE SaveLoaded(r, new, 200)
    /\ products' = [products EXCEPT ![req[r].product].stock = @ - req[r].qty]
    /\ UNCHANGED <<users, nops>>

\* POST /api/cart/add: cart.addItem(productId, quantity, product.price)
AddSave(r) ==
    /\ req[r].pc = "save"
    /\ req[r].op = "add"
    /\ LET new == AddItemMem(req[r].doc.items, req[r].product, req[r].qty, req[r].price) IN
       IF req[r].cid = 0 THEN SaveNew(r, new, 200) ELSE SaveLoaded(r, new, 200)
    /\ UNCHANGED <<users, products, nops>>

\* PUT /api/cart/update/:productId: body check, Product.findById, stock check
UpdateStart(r, u, p, body) ==
    /\ FreeSlot(r)
    /\ nops < MaxOps
    /\ nops' = nops + 1
    /\ LET q == IF body = <<>> THEN 0 ELSE body[1] IN
       IF body = <<>> \/ q < 0 THEN
            /\ req' = req
            /\ last' = Response("update", u, p, q, 400)
       ELSE IF products[p].state # "live" THEN
            /\ req' = req
            /\ last' = Response("update", u, p, q, 404)
       ELSE IF UpdateStockShort(products[p].stock, q) THEN
            /\ req' = req
            /\ last' = Response("update", u, p, q, 400)
       ELSE
            /\ req' = [req EXCEPT ![r] = [Idle EXCEPT !.pc = "findCart", !.op = "update",
                          !.user = u, !.product = p, !.qty = q,
                          !.price = products[p].price, !.stock = products[p].stock]]
            /\ last' = NoResponse
    /\ UNCHANGED <<products, carts, users>>

\* PUT /api/cart/update/:productId: Cart.findOne, 404 when there is none
UpdateFindCart(r) ==
    /\ req[r].pc = "findCart"
    /\ req[r].op = "update"
    /\ LET i == FindOne(carts, req[r].user) IN
       IF i = 0 THEN Respond(r, 404)
       ELSE /\ req' = [req EXCEPT ![r].pc = "save", ![r].cid = i,
                                  ![r].doc = Loaded(carts, i)]
            /\ last' = last
    /\ UNCHANGED <<users, products, carts, nops>>

\* PUT /api/cart/update/:productId: cart.updateItemQuantity(productId, quantity)
UpdateSave(r) ==
    /\ req[r].pc = "save"
    /\ req[r].op = "update"
    /\ IF FindItem(req[r].doc.items, req[r].product) = 0
       THEN /\ Respond(r, 500)
            /\ UNCHANGED carts
       ELSE SaveLoaded(r, UpdateItemMem(req[r].doc.items, req[r].product, req[r].qty), 200)
    /\ UNCHANGED <<users, products, nops>>

\* DELETE /api/cart/remove/:productId: Cart.findOne, 404 when there is none
RemoveStart(r, u, p) ==
    /\ FreeSlot(r)
    /\ nops < MaxOps
    /\ nops' = nops + 1
    /\ LET i == FindOne(carts, u) IN
       IF i = 0 THEN
            /\ req' = req
            /\ last' = Response("remove", u, p, 0, 404)
       ELSE /\ req' = [req EXCEPT ![r] = [Idle EXCEPT !.pc = "save", !.op = "remove",
                          !.user = u, !.product = p, !.cid = i, !.doc = Loaded(carts, i)]]
            /\ last' = NoResponse
    /\ UNCHANGED <<products, carts, users>>

\* DELETE /api/cart/remove/:productId: cart.removeItem(productId)
RemoveSave(r) ==
    /\ req[r].pc = "save"
    /\ req[r].op = "remove"
    /\ SaveLoaded(r, RemoveItemMem(req[r].doc.items, req[r].product), 200)
    /\ UNCHANGED <<users, products, nops>>

\* DELETE /api/cart/clear: Cart.findOne, 404 when there is none
ClearStart(r, u) ==
    /\ FreeSlot(r)
    /\ nops < MaxOps
    /\ nops' = nops + 1
    /\ LET i == FindOne(carts, u) IN
       IF i = 0 THEN
            /\ req' = req
            /\ last' = Response("clear", u, NoId, 0, 404)
       ELSE /\ req' = [req EXCEPT ![r] = [Idle EXCEPT !.pc = "save", !.op = "clear",
                          !.user = u, !.cid = i, !.doc = Loaded(carts, i)]]
            /\ last' = NoResponse
    /\ UNCHANGED <<products, carts, users>>

\* DELETE /api/cart/clear: cart.clearCart()
ClearSave(r) ==
    /\ req[r].pc = "save"
    /\ req[r].op = "clear"
    /\ SaveLoaded(r, ClearCartMem(req[r].doc.items), 200)
    /\ UNCHANGED <<users, products, nops>>

\* (mutant) a price change that is carried into the carts that hold the product
UpdateProductPriceReprices(p, price) ==
    /\ nops < MaxOps
    /\ nops' = nops + 1
    /\ products[p].state = "live"
    /\ products[p].price # price
    /\ products' = [products EXCEPT ![p].price = price]
    /\ carts' = [i \in 1..Len(carts) |->
                    [carts[i] EXCEPT !.items =
                        [j \in 1..Len(carts[i].items) |->
                            IF carts[i].items[j].product = p
                            THEN [carts[i].items[j] EXCEPT !.price = price]
                            ELSE carts[i].items[j]]]]
    /\ last' = NoResponse
    /\ UNCHANGED <<req, users>>

\* PUT /api/products/:id by the owner: a new price
UpdateProductPrice(p, price) ==
    /\ nops < MaxOps
    /\ nops' = nops + 1
    /\ products[p].state = "live"
    /\ products[p].price # price
    /\ products' = [products EXCEPT ![p].price = price]
    /\ last' = NoResponse
    /\ UNCHANGED <<carts, req, users>>

\* PUT /api/products/:id by the owner: a new stock
UpdateProductStock(p, stock) ==
    /\ nops < MaxOps
    /\ nops' = nops + 1
    /\ products[p].state = "live"
    /\ products[p].stock # stock
    /\ products' = [products EXCEPT ![p].stock = stock]
    /\ last' = NoResponse
    /\ UNCHANGED <<carts, req, users>>

\* (mutant) a product deletion that also takes the product out of the carts
DeleteProductCascades(p) ==
    /\ nops < MaxOps
    /\ nops' = nops + 1
    /\ products[p].state = "live"
    /\ products' = [products EXCEPT ![p] = Gone]
    /\ carts' = [i \in 1..Len(carts) |->
                    [carts[i] EXCEPT !.items = FilterOut(carts[i].items, p)]]
    /\ last' = NoResponse
    /\ UNCHANGED <<req, users>>

\* DELETE /api/products/:id by the owner: product.deleteOne()
DeleteProduct(p) ==
    /\ nops < MaxOps
    /\ nops' = nops + 1
    /\ products[p].state = "live"
    /\ products' = [products EXCEPT ![p] = Gone]
    /\ last' = NoResponse
    /\ UNCHANGED <<carts, req, users>>

\* the product ids a client can name: those of products that were created
Known == {p \in ProductIds : products[p].state # "none"}

Next ==
    \/ \E r \in Slots, u \in users : GetStart(r, u)
    \/ \E r \in Slots : GetCreate(r)
    \/ \E r \in Slots, u \in users, p \in Known, b \in Bodies : AddStart(r, u, p, b)
    \/ \E r \in Slots, u \in users : AddStart(r, u, NoId, <<>>)
    \/ \E r \in Slots : AddFindCart(r)
    \/ \E r \in Slots : AddSave(r)
    \/ \E r \in Slots, u \in users, p \in Known, b \in Bodies : UpdateStart(r, u, p, b)
    \/ \E r \in Slots : UpdateFindCart(r)
    \/ \E r \in Slots : UpdateSave(r)
    \/ \E r \in Slots, u \in users, p \in Known : RemoveStart(r, u, p)
    \/ \E r \in Slots : RemoveSave(r)
    \/ \E r \in Slots, u \in users : ClearStart(r, u)
    \/ \E r \in Slots : ClearSave(r)
    \/ \E p \in Known, price \in PriceInputs : UpdateProductPrice(p, price)
    \/ \E p \in Known, stock \in StockInputs : UpdateProductStock(p, stock)
    \/ \E p \in Known : DeleteProduct(p)

Spec == Init /\ [][Next]_vars

\* ------------------------------------------------------------------------
\* Properties
\* ------------------------------------------------------------------------

\* sum of the quantities of the first n items
RECURSIVE QuantitiesUpTo(_, _)
QuantitiesUpTo(items, n) ==
    IF n = 0 THEN 0 ELSE items[n].quantity + QuantitiesUpTo(items, n - 1)

\* sum of quantity x unitPrice over the first n items
RECURSIVE CostsUpTo(_, _)
CostsUpTo(items, n) ==
    IF n = 0 THEN 0 ELSE items[n].quantity * items[n].price + CostsUpTo(items, n - 1)

SumQuantities(items) == QuantitiesUpTo(items, Len(items))
SumCosts(items) == CostsUpTo(items, Len(items))

CartIds == 1..Len(carts)

\* slot r serves a request that has answered no earlier than this step
Answers(r) == req[r].pc # "idle" /\ req'[r].pc = "idle"

\* C1: every stored cart has totalItems = the sum of its items' quantities and
\* totalPrice = the sum of quantity x unitPrice over its items, in every
\* reachable state and under every interleaving of the cart requests.
C1_TotalsAreTheFold ==
    \A i \in CartIds :
        /\ carts[i].totalItems = SumQuantities(carts[i].items)
        /\ carts[i].totalPrice = SumCosts(carts[i].items)

\* C2: no stored cart holds two items with the same productId, also when two
\* addToCart requests of one user for the same product interleave.
C2_NoDuplicateProduct ==
    \A i \in CartIds :
        \A j, k \in 1..Len(carts[i].items) :
            carts[i].items[j].product = carts[i].items[k].product => j = k

C4_OneCartPerUser ==
    \A i, j \in CartIds : carts[i].user = carts[j].user => i = j

\* C4 witness: a request that found no cart is about to insert one for a user
\* whose cart another request has inserted meanwhile
C4_Witness ==
    \E r \in Slots :
        /\ req[r].pc \in {"create", "save"}
        /\ req[r].op \in {"get", "add"}
        /\ req[r].cid = 0
        /\ \E i \in CartIds : carts[i].user = req[r].user

\* ---- one request taken alone --------------------------------------------
\* The claims about what one operation does to a cart speak of the operation
\* on the cart as stored: no other request wrote the document between this
\* request's load and its save.
Undisturbed(r) ==
    IF req[r].cid = 0
    THEN FindOne(carts, req[r].user) = 0
    ELSE Loaded(carts, req[r].cid) = req[r].doc

\* the catalog still says what the request read from it
CatalogAsRead(r) ==
    /\ products[req[r].product].state = "live"
    /\ products[req[r].product].price = req[r].price
    /\ products[req[r].product].stock = req[r].stock

\* slot r's addItem runs and answers in this step, on the cart as stored
AddItemStep(r) ==
    /\ req[r].op = "add"
    /\ req[r].pc = "save"
    /\ Answers(r)
    /\ Undisturbed(r)

\* slot r's updateItemQuantity runs and answers in this step
UpdateItemStep(r) ==
    /\ req[r].op = "update"
    /\ req[r].pc = "save"
    /\ Answers(r)

\* the items of u's stored cart after the step (<<>> when u has none)
ItemsAfter(u) ==
    IF FindOne(carts', u) = 0 THEN <<>> ELSE carts'[FindOne(carts', u)].items

Min(a, b) == IF a < b THEN a ELSE b

\* C5: addItem of a product that is not in the cart with a quantity above 100
\* succeeds and stores the item with quantity 100 (addItem(p, 150, price) on
\* an empty cart yields exactly one item, of quantity 100).
C5_NewItemIsClamped ==
    [][\A r \in Slots :
        (/\ AddItemStep(r)
         /\ FindItem(req[r].doc.items, req[r].product) = 0
         /\ req[r].qty > 100)
        => /\ last'.status = 200
           /\ ItemsAfter(req[r].user) =
                Append(req[r].doc.items,
                       [product |-> req[r].product, quantity |-> 100,
                        price |-> req[r].price])]_vars

\* C6: addItem(p, q, price) with q >= 1 on a cart that holds p with quantity
\* old succeeds and sets p's quantity to min(old + q, 100); exceeding 100 is
\* not an error.
C6_MergeIsClamped ==
    [][\A r \in Slots :
        LET i == FindItem(req[r].doc.items, req[r].product) IN
        (/\ AddItemStep(r)
         /\ i # 0
         /\ req[r].qty >= 1)
        => /\ last'.status = 200
           /\ Len(ItemsAfter(req[r].user)) = Len(req[r].doc.items)
           /\ ItemsAfter(req[r].user)[i].product = req[r].product
           /\ ItemsAfter(req[r].user)[i].quantity =
                Min(req[r].doc.items[i].quantity + req[r].qty, 100)]_vars

\* C6 witness: 150 was merged into an item, which now holds 100
C6_Witness ==
    /\ last.op = "add"
    /\ last.qty = 150
    /\ last.status = 200
    /\ \E i \in CartIds :
          /\ carts[i].user = last.user
          /\ \E j \in 1..Len(carts[i].items) :
                /\ carts[i].items[j].product = last.product
                /\ carts[i].items[j].quantity = 100

\* C7: addToCart(u, p, q) with p in the catalog, p not in u's cart and
\* 1 <= q <= min(stock(p), 100) succeeds and adds exactly one item
\* {p, q, catalog price}; totalItems grows by q and totalPrice by q x price.
C7_AddNewItem ==
    [][\A r \in Slots :
        (/\ AddItemStep(r)
         /\ CatalogAsRead(r)
         /\ FindItem(req[r].doc.items, req[r].product) = 0
         /\ req[r].qty >= 1
         /\ req[r].qty <= Min(req[r].stock, 100))
        => /\ last'.status = 200
           /\ FindOne(carts', req[r].user) # 0
           /\ LET c == carts'[FindOne(carts', req[r].user)] IN
              /\ c.items = Append(req[r].doc.items,
                                  [product |-> req[r].product, quantity |-> req[r].qty,
                                   price |-> products[req[r].product].price])
              /\ c.totalItems = req[r].doc.totalItems + req[r].qty
              /\ c.totalPrice = req[r].doc.totalPrice
                                  + req[r].qty * products[req[r].product].price]_vars

\* C7 on carts whose totals were the fold of their items before the request
C7_AddNewItemOnSoundTotals ==
    [][\A r \in Slots :
        (/\ AddItemStep(r)
         /\ CatalogAsRead(r)
         /\ FindItem(req[r].doc.items, req[r].product) = 0
         /\ req[r].qty >= 1
         /\ req[r].qty <= Min(req[r].stock, 100)
         /\ req[r].doc.totalItems = SumQuantities(req[r].doc.items)
         /\ req[r].doc.totalPrice = SumCosts(req[r].doc.items))
        => /\ last'.status = 200
           /\ FindOne(carts', req[r].user) # 0
           /\ LET c == carts'[FindOne(carts', req[r].user)] IN
              /\ c.items = Append(req[r].doc.items,
                                  [product |-> req[r].product, quantity |-> req[r].qty,
                                   price |-> products[req[r].product].price])
              /\ c.totalItems = req[r].doc.totalItems + req[r].qty
              /\ c.totalPrice = req[r].doc.totalPrice
                                  + req[r].qty * products[req[r].product].price]_vars

\* C8: the stock check of addToCart looks at the requested increment only: a
\* request with 1 <= q <= stock(p) is never refused for stock, whatever the
\* cart holds of p, and its merge stores min(old + q, 100) also when that is
\* more than the stock; so a cart can hold more of p than is in stock while
\* the catalog never changed.
C8_StockCheckOnIncrementOnly ==
    [][/\ \A u \in users, p \in Known :
            (/\ nops' = nops + 1
             /\ last'.op = "add" /\ last'.user = u /\ last'.product = p
             /\ last'.status = 400)
            => last'.qty > products[p].stock
       /\ \A r \in Slots :
            LET i == FindItem(req[r].doc.items, req[r].product) IN
            (/\ AddItemStep(r)
             /\ i # 0
             /\ req[r].qty >= 1
             /\ req[r].doc.items[i].quantity + req[r].qty > req[r].stock)
            => /\ last'.status = 200
               /\ ItemsAfter(req[r].user)[i].quantity =
                    Min(req[r].doc.items[i].quantity + req[r].qty, 100)]_vars

\* C8 witness: after two served additions and no catalog write, the cart holds
\* more of the product than the catalog has in stock
C8_Witness ==
    /\ last.op = "add"
    /\ last.status = 200
    /\ nops = 2
    /\ products["p1"] = P1
    /\ \E i \in CartIds :
          /\ carts[i].user = last.user
          /\ Len(carts[i].items) = 1
          /\ carts[i].items[1].product = "p1"
          /\ carts[i].items[1].quantity > products["p1"].stock

\* C9: after every successful addToCart(u, p, q) the unitPrice stored on p's
\* item is the catalog price the request read, for a new item and for a merge.
C9_AddStoresCurrentPrice ==
    [][\A r \in Slots :
        (AddItemStep(r) /\ last'.status = 200)
        => LET items == ItemsAfter(req[r].user) IN
           /\ FindItem(items, req[r].product) # 0
           /\ items[FindItem(items, req[r].product)].price = req[r].price]_vars

\* C10 as claimed: after every successful updateQuantity(u, p, q) with q > 0
\* the unitPrice stored on p's item is the catalog price the request read.
C10_UpdateStoresCurrentPrice ==
    [][\A r \in Slots :
        (/\ UpdateItemStep(r)
         /\ Undisturbed(r)
         /\ req[r].qty > 0
         /\ last'.status = 200)
        => LET items == ItemsAfter(req[r].user) IN
           /\ FindItem(items, req[r].product) # 0
           /\ items[FindItem(items, req[r].product)].price = req[r].price]_vars

\* C10 amended: a successful updateQuantity(u, p, q) with q > 0 leaves the
\* unitPrice of every stored item as it was: the snapshot price is the one
\* taken when the item was added.
C10_UpdateKeepsSnapshotPrice ==
    [][\A r \in Slots :
        (/\ UpdateItemStep(r)
         /\ req[r].qty > 0
         /\ last'.status = 200)
        => /\ Len(carts'[req[r].cid].items) = Len(carts[req[r].cid].items)
           /\ \A j \in 1..Len(carts[req[r].cid].items) :
                /\ carts'[req[r].cid].items[j].product = carts[req[r].cid].items[j].product
                /\ carts'[req[r].cid].items[j].price = carts[req[r].cid].items[j].price]_vars

\* C10 witness: an update with q > 0 was served for an item whose stored
\* unitPrice is not the price the catalog has now
C10_Witness ==
    /\ last.op = "update"
    /\ last.status = 200
    /\ last.qty > 0
    /\ products[last.product].state = "live"
    /\ \E i \in CartIds :
          /\ carts[i].user = last.user
          /\ FindItem(carts[i].items, last.product) # 0
          /\ carts[i].items[FindItem(carts[i].items, last.product)].price
                # products[last.product].price

\* ---- updateQuantity ------------------------------------------------------

\* an update request arrives in this step and is answered at once
UpdateAnsweredAtOnce == nops' = nops + 1 /\ last'.op = "update"

\* an update request arrives in this step and goes on to look for the cart
UpdateGoesOn(r) ==
    /\ nops' = nops + 1
    /\ req[r].pc = "idle"
    /\ req'[r].op = "update"

\* slot r's update request looks for the cart in this step
UpdateLooksForCart(r) ==
    /\ req[r].op = "update"
    /\ req[r].pc = "findCart"
    /\ req'[r] # req[r]

\* C11: updateQuantity(u, p, q) answers 400 when q is absent or negative;
\* otherwise 404 when p is not in the catalog; otherwise 400 when q > stock(p);
\* otherwise 404 when u has no cart; in this order, and q = 0 passes the
\* checks on q.  (A response that carries quantity 0 and status 400 is that of
\* a request without quantity.)
C11_UpdateChecksInOrder ==
    [][/\ UpdateAnsweredAtOnce =>
            LET p == last'.product
                q == last'.qty
            IN  /\ last'.status \in {400, 404}
                /\ q < 0 => last'.status = 400
                /\ last'.status = 404 => q >= 0 /\ products[p].state # "live"
                /\ (last'.status = 400 /\ q > 0) =>
                        /\ products[p].state = "live"
                        /\ q > products[p].stock
                /\ (q > 0 /\ products[p].state # "live") => last'.status = 404
                /\ UNCHANGED carts
       /\ \A r \in Slots :
            /\ UpdateGoesOn(r) =>
                    /\ req'[r].qty >= 0
                    /\ products[req'[r].product].state = "live"
                    /\ req'[r].qty <= products[req'[r].product].stock
            /\ UpdateLooksForCart(r) =>
                    /\ Answers(r) <=> FindOne(carts, req[r].user) = 0
                    /\ Answers(r) => last'.status = 404 /\ UNCHANGED carts]_vars

\* C11 witness: an update with q = 0 for a product in the catalog passed the
\* checks on q and on the stock and was answered 404 for want of a cart
C11_Witness ==
    /\ last.op = "update"
    /\ last.qty = 0
    /\ last.status = 404
    /\ products[last.product].state = "live"
    /\ FindOne(carts, last.user) = 0

\* the stored cart slot r loaded, before and after the step
CartBefore(r) == carts[req[r].cid]
CartAfter(r) == carts'[req[r].cid]

\* the totals of the cart are the fold of its items and no product is twice
\* in it
SoundCart(c) ==
    /\ c.totalItems = SumQuantities(c.items)
    /\ c.totalPrice = SumCosts(c.items)
    /\ \A j, k \in 1..Len(c.items) :
            c.items[j].product = c.items[k].product => j = k

\* the items other than those of product p, in their order
Others(items, p) == SelectSeq(items, LAMBDA it : it.product # p)

\* C12: updateItemQuantity(p, q) with q <= 0 on a cart that contains p removes
\* p's item, with the same result for q = 0 and q = -1; totalItems decreases
\* by exactly the removed item's prior quantity and all other items are kept
\* (updateQuantity(u, p, 0) on a cart containing p).
C12_UpdateToZeroRemoves ==
    [][\A r \in Slots :
        LET i == FindItem(req[r].doc.items, req[r].product) IN
        (/\ UpdateItemStep(r)
         /\ Undisturbed(r)
         /\ req[r].qty <= 0
         /\ i # 0)
        => /\ last'.status = 200
           /\ UpdateItemMem(req[r].doc.items, req[r].product, 0)
                = UpdateItemMem(req[r].doc.items, req[r].product, -1)
           /\ CartAfter(r).items = Others(CartBefore(r).items, req[r].product)
           /\ CartAfter(r).totalItems
                = CartBefore(r).totalItems - CartBefore(r).items[i].quantity]_vars

\* C12 on carts that were sound before the request
C12_UpdateToZeroRemovesOnSoundCart ==
    [][\A r \in Slots :
        LET i == FindItem(req[r].doc.items, req[r].product) IN
        (/\ UpdateItemStep(r)
         /\ Undisturbed(r)
         /\ req[r].qty <= 0
         /\ i # 0
         /\ SoundCart(CartBefore(r)))
        => /\ last'.status = 200
           /\ UpdateItemMem(req[r].doc.items, req[r].product, 0)
                = UpdateItemMem(req[r].doc.items, req[r].product, -1)
           /\ CartAfter(r).items = Others(CartBefore(r).items, req[r].product)
           /\ CartAfter(r).totalItems
                = CartBefore(r).totalItems - CartBefore(r).items[i].quantity]_vars

\* C13: updateItemQuantity(p, q) with q > 0 sets p's quantity to min(q, 100)
\* when p is in the cart; when p is not in the cart it fails with
\* ItemNotFound, which the service answers with 500, and the stored cart is
\* unchanged.
C13_UpdateSetsOrItemNotFound ==
    [][\A r \in Slots :
        LET i == FindItem(req[r].doc.items, req[r].product) IN
        (UpdateItemStep(r) /\ req[r].qty > 0)
        => /\ (i # 0 /\ Undisturbed(r)) =>
                /\ last'.status = 200
                /\ Len(CartAfter(r).items) = Len(CartBefore(r).items)
                /\ CartAfter(r).items[i].product = req[r].product
                /\ CartAfter(r).items[i].quantity = Min(req[r].qty, 100)
           /\ i = 0 =>
                /\ last'.status = 500
                /\ UNCHANGED carts]_vars

\* C13 witness: an update with q > 0 for a product that is not in the user's
\* cart was answered 500
C13_Witness ==
    /\ last.op = "update"
    /\ last.qty > 0
    /\ last.status = 500
    /\ FindOne(carts, last.user) # 0
    /\ FindItem(carts[FindOne(carts, last.user)].items, last.product) = 0

\* an update with q = 150 was served and left quantity 100
C13_ClampReached ==
    /\ last.op = "update"
    /\ last.qty = 150
    /\ last.status = 200
    /\ \E j \in 1..Len(carts[FindOne(carts, last.user)].items) :
            /\ carts[FindOne(carts, last.user)].items[j].product = last.product
            /\ carts[FindOne(carts, last.user)].items[j].quantity = 100

\* C14: updateItemQuantity(p, q) with q <= 0 on a cart that does not contain p
\* is not an error: it succeeds and leaves the cart unchanged.
C14_UpdateToZeroOfAbsentItemSucceeds ==
    [][\A r \in Slots :
        (/\ UpdateItemStep(r)
         /\ Undisturbed(r)
         /\ req[r].qty <= 0
         /\ FindItem(req[r].doc.items, req[r].product) = 0)
        => /\ last'.status = 200
           /\ UNCHANGED carts]_vars

\* ---- removeFromCart and clearCart ----------------------------------------

\* slot r's removeItem runs and answers in this step, on the cart as stored
RemoveItemStep(r) ==
    /\ req[r].op = "remove"
    /\ req[r].pc = "save"
    /\ Answers(r)
    /\ Undisturbed(r)

\* what a removeItem(p) that follows at once would store in document c
RemoveAgain(c, p) ==
    WriteDoc(c, [items |-> c.items, totalItems |-> c.totalItems,
                 totalPrice |-> c.totalPrice, v |-> c.v],
             RemoveItemMem(c.items, p))

\* C15: removeItem is idempotent: removeItem(p) on a cart that does not
\* contain p succeeds and leaves items, totalItems and totalPrice unchanged,
\* and on any cart a second removeItem(p) changes nothing of what the first
\* one left.
C15_RemoveItemIdempotent ==
    [][\A r \in Slots :
        RemoveItemStep(r)
        => /\ last'.status = 200
           /\ CartAfter(r).items = Others(CartBefore(r).items, req[r].product)
           /\ FindItem(req[r].doc.items, req[r].product) = 0 =>
                /\ CartAfter(r).items = CartBefore(r).items
                /\ CartAfter(r).totalItems = CartBefore(r).totalItems
                /\ CartAfter(r).totalPrice = CartBefore(r).totalPrice
           /\ RemoveAgain(CartAfter(r), req[r].product) = CartAfter(r)]_vars

\* C15 on carts that were sound before the request
C15_RemoveItemIdempotentOnSoundCart ==
    [][\A r \in Slots :
        (RemoveItemStep(r) /\ SoundCart(CartBefore(r)))
        => /\ last'.status = 200
           /\ CartAfter(r).items = Others(CartBefore(r).items, req[r].product)
           /\ FindItem(req[r].doc.items, req[r].product) = 0 =>
                /\ CartAfter(r).items = CartBefore(r).items
                /\ CartAfter(r).totalItems = CartBefore(r).totalItems
                /\ CartAfter(r).totalPrice = CartBefore(r).totalPrice
           /\ RemoveAgain(CartAfter(r), req[r].product) = CartAfter(r)]_vars

\* a remove request arrives in this step and is answered at once
RemoveAnsweredAtOnce == nops' = nops + 1 /\ last'.op = "remove"

\* a remove request arrives in this step and goes on to removeItem
RemoveGoesOn(r) ==
    /\ nops' = nops + 1
    /\ req[r].pc = "idle"
    /\ req'[r].op = "remove"

\* C16: removeFromCart(u, p) fails with CartNotFound (404) exactly when u has
\* no stored cart, and then creates no cart; whenever u has a cart it
\* succeeds, whether or not p is in the cart, and afterwards p is not in the
\* cart.
C16_RemoveFromCart ==
    [][/\ RemoveAnsweredAtOnce =>
            /\ last'.status = 404
            /\ FindOne(carts, last'.user) = 0
            /\ UNCHANGED carts
       /\ \A r \in Slots :
            /\ RemoveGoesOn(r) =>
                    /\ FindOne(carts, req'[r].user) # 0
                    /\ UNCHANGED carts
            /\ RemoveItemStep(r) =>
                    /\ last'.status = 200
                    /\ Len(carts') = Len(carts)
                    /\ FindItem(CartAfter(r).items, req[r].product) = 0]_vars

\* C16 witness: a remove was served on a cart from which it took an item out
\* (the version key counts the push and the removal)
C16_Witness ==
    /\ last.op = "remove"
    /\ last.status = 200
    /\ FindOne(carts, last.user) # 0
    /\ carts[FindOne(carts, last.user)].v = 2
    /\ FindItem(carts[FindOne(carts, last.user)].items, last.product) = 0

\* a clear request arrives in this step and is answered at once
ClearAnsweredAtOnce == nops' = nops + 1 /\ last'.op = "clear"

\* a clear request arrives in this step and goes on to clearCart
ClearGoesOn(r) ==
    /\ nops' = nops + 1
    /\ req[r].pc = "idle"
    /\ req'[r].op = "clear"

\* slot r's clearCart runs and answers in this step, on the cart as stored
ClearCartStep(r) ==
    /\ req[r].op = "clear"
    /\ req[r].pc = "save"
    /\ Answers(r)
    /\ Undisturbed(r)

\* a get request arrives in this step and is answered at once
GetAnsweredAtOnce == nops' = nops + 1 /\ last'.op = "get"

\* C17: clearCart(u) on any existing cart leaves it with no items,
\* totalItems = 0 and totalPrice = 0, and the cart record still exists, so
\* that a following getCart(u) returns it and a following clearCart or
\* removeFromCart is not answered CartNotFound; clearCart on an absent cart
\* is answered CartNotFound (404) and creates nothing.
C17_ClearCart ==
    [][/\ ClearAnsweredAtOnce =>
            /\ last'.status = 404
            /\ FindOne(carts, last'.user) = 0
            /\ UNCHANGED carts
       /\ (GetAnsweredAtOnce \/ ClearAnsweredAtOnce \/ RemoveAnsweredAtOnce) =>
            /\ (FindOne(carts, last'.user) # 0) = (last'.status = 200)
            /\ (FindOne(carts, last'.user) = 0) = (last'.status = 404)
       /\ \A r \in Slots :
            /\ ClearGoesOn(r) =>
                    /\ FindOne(carts, req'[r].user) # 0
                    /\ UNCHANGED carts
            /\ ClearCartStep(r) =>
                    /\ last'.status = 200
                    /\ Len(carts') = Len(carts)
                    /\ FindOne(carts', req[r].user) = req[r].cid
                    /\ CartAfter(r).items = <<>>
                    /\ CartAfter(r).totalItems = 0
                    /\ CartAfter(r).totalPrice = 0]_vars

\* C17 witness: a clear was served on a cart that held an item (the version
\* key counts the push and the clearing) and the empty cart is still stored
C17_Witness ==
    /\ last.op = "clear"
    /\ last.status = 200
    /\ FindOne(carts, last.user) # 0
    /\ carts[FindOne(carts, last.user)].v = 2
    /\ carts[FindOne(carts, last.user)].items = <<>>

\* ---- failures and existence ----------------------------------------------

\* a cart request is answered in this step
Answered ==
    \/ nops' = nops + 1 /\ last'.op # "none"
    \/ \E r \in Slots : Answers(r)

\* C18: every failing cart request leaves all stored carts unchanged and never
\* creates a cart, in particular an addToCart that fails with ProductNotFound
\* or InsufficientStock, also when the user had no cart before the call; no
\* operation leaves a partially applied state.
C18_FailureChangesNothing ==
    [][(Answered /\ last'.status # 200) => UNCHANGED carts]_vars

\* C18 witness: an addToCart of a user without cart was refused for stock and
\* the user still has no cart
C18_Witness ==
    /\ last.op = "add"
    /\ last.status = 400
    /\ last.product \in ProductIds
    /\ products[last.product].state = "live"
    /\ last.qty > products[last.product].stock
    /\ FindOne(carts, last.user) = 0

\* C19: getCart(u) for an authenticated user never fails: it returns the
\* existing cart, or creates and returns an empty cart when none exists, also
\* when it runs concurrently with another getCart or addToCart of the same
\* user that is creating the cart.
C19_GetCartNeverFails ==
    last.op = "get" => last.status = 200

\* C19 for a getCart that no other request of the user overtakes between its
\* findOne and its create
C19_GetCartAloneNeverFails ==
    [][/\ GetAnsweredAtOnce =>
            /\ last'.status = 200
            /\ UNCHANGED carts
       /\ \A r \in Slots :
            (req[r].op = "get" /\ Answers(r) /\ Undisturbed(r)) =>
                /\ last'.status = 200
                /\ carts' = Append(carts, NewCartDoc(req[r].user, <<>>))]_vars

\* C20: once a cart record exists for a user it exists in every later state:
\* no getCart, addToCart, updateQuantity, removeFromCart or clearCart ever
\* returns a cart to Absent, including removing the last item and clearCart.
C20_CartIsNeverDeleted ==
    [][/\ Len(carts') >= Len(carts)
       /\ \A i \in CartIds : carts'[i].user = carts[i].user]_vars

\* C20 witness: the last item of a cart was taken out by an update to 0 and
\* the cart is still stored, empty
C20_Witness ==
    /\ last.op = "update"
    /\ last.qty = 0
    /\ last.status = 200
    /\ FindOne(carts, last.user) # 0
    /\ carts[FindOne(carts, last.user)].items = <<>>

\* ---- the life of a cart --------------------------------------------------

\* the persisted state of u's cart
CartState(cs, u) ==
    IF FindOne(cs, u) = 0 THEN "Absent"
    ELSE IF cs[FindOne(cs, u)].items = <<>> THEN "Empty"
    ELSE "NonEmpty"

\* the move of u's persisted cart state in this step
Move(u) == <<CartState(carts, u), CartState(carts', u)>>

\* slot r serves a request of user u of kind op that answers 200 in this step
Serves(r, u, op) ==
    /\ req[r].op = op
    /\ req[r].user = u
    /\ Answers(r)
    /\ last'.status = 200

\* C21 as claimed: the persisted state of each user's cart only moves along
\* Absent -> Empty, Empty -> NonEmpty and NonEmpty -> Empty (plus steps that
\* keep the state); NonEmpty is never entered directly from Absent.
C21_CartStateMoves ==
    [][\A u \in Users :
        \/ CartState(carts', u) = CartState(carts, u)
        \/ Move(u) \in {<<"Absent", "Empty">>, <<"Empty", "NonEmpty">>,
                        <<"NonEmpty", "Empty">>}]_vars

\* C21 amended: the persisted state moves along Absent -> Empty (a getCart
\* that creates the cart), Absent -> NonEmpty (a successful addToCart of a
\* user without cart, which inserts the cart together with its first item),
\* Empty -> NonEmpty (a successful addToCart) and NonEmpty -> Empty, plus
\* steps that keep the state; it never returns to Absent.
C21_CartStateMovesWithInsert ==
    [][\A u \in Users :
        \/ CartState(carts', u) = CartState(carts, u)
        \/ /\ Move(u) = <<"Absent", "Empty">>
           /\ \E r \in Slots : Serves(r, u, "get")
        \/ /\ Move(u) = <<"Absent", "NonEmpty">>
           /\ \E r \in Slots : Serves(r, u, "add") /\ req[r].cid = 0
           /\ Len(carts'[FindOne(carts', u)].items) = 1
        \/ /\ Move(u) = <<"Empty", "NonEmpty">>
           /\ \E r \in Slots : Serves(r, u, "add")
        \/ /\ Move(u) = <<"NonEmpty", "Empty">>
           /\ \E r \in Slots : \E op \in {"update", "remove", "clear"} :
                    Serves(r, u, op)]_vars

\* C21 witness: the first addToCart of a user without cart was served and
\* inserted the cart with its item (an inserted document has version 0)
C21_Witness ==
    /\ last.op = "add"
    /\ last.status = 200
    /\ FindOne(carts, last.user) # 0
    /\ carts[FindOne(carts, last.user)].v = 0
    /\ Len(carts[FindOne(carts, last.user)].items) = 1

\* ---- two concurrent addToCart ---------------------------------------------

\* Slot r is about to save an addToCart whose copy went stale by one other
\* addToCart of the same user and product: both loaded the same cart, the
\* other one saved first and was answered 200.  Either both found the product
\* in the cart (the other changed its quantity) or neither did (the other
\* appended an item of it).  The request of slot r is one that changes the
\* quantity it loaded and that the validators accept.
SecondOfTwoAdds(r) ==
    LET d == req[r].doc
        c == carts[req[r].cid]
        i == FindItem(d.items, req[r].product)
    IN  /\ req[r].op = "add"
        /\ req[r].pc = "save"
        /\ req[r].cid # 0
        /\ last.op = "add"
        /\ last.status = 200
        /\ last.user = req[r].user
        /\ last.product = req[r].product
        /\ IF i # 0
           THEN /\ c.v = d.v
                /\ Len(c.items) = Len(d.items)
                /\ c.items[i].quantity # d.items[i].quantity
                /\ \A j \in 1..Len(d.items) : j # i => c.items[j] = d.items[j]
                /\ d.items[i].quantity + req[r].qty >= 1
                /\ Min(d.items[i].quantity + req[r].qty, 100) # d.items[i].quantity
           ELSE /\ c.v = d.v + 1
                /\ Len(c.items) = Len(d.items) + 1
                /\ SubSeq(c.items, 1, Len(d.items)) = d.items
                /\ c.items[Len(c.items)].product = req[r].product
                /\ req[r].qty >= 1
                /\ req[r].qty <= 100

\* C22: two concurrent addToCart requests for the same user and product that
\* both load the cart before either saves are both answered 200: no version
\* check rejects the stale write of the second one; when the product was in
\* the cart, the stored quantity then is the loaded quantity plus the second
\* increment only (last write wins).
C22_BothAddsSucceed ==
    [][\A r \in Slots :
        LET i == FindItem(req[r].doc.items, req[r].product) IN
        (SecondOfTwoAdds(r) /\ Answers(r))
        => /\ last'.status = 200
           /\ i # 0 =>
                CartAfter(r).items[i].quantity
                    = Min(req[r].doc.items[i].quantity + req[r].qty, 100)]_vars

\* C22 witness: the first of two addToCart that merge into the same item has
\* saved, the second is about to save its stale copy
C22_Witness ==
    \E r \in Slots :
        /\ SecondOfTwoAdds(r)
        /\ FindItem(req[r].doc.items, req[r].product) # 0

\* the same with two addToCart that both found the product absent
C22_PushRaceReached ==
    \E r \in Slots :
        /\ SecondOfTwoAdds(r)
        /\ FindItem(req[r].doc.items, req[r].product) = 0

\* ---- quantities that addToCart passes on and stores ----------------------

\* C23: whenever addToCart delegates to addItem, the quantity it passes lies
\* in [1, 100]: a request quantity of 0, a negative one or one above 100 is
\* stopped by the route before the aggregate is invoked.
C23_AddPassesQuantityInRange ==
    \A r \in Slots :
        (req[r].op = "add" /\ req[r].pc \in {"findCart", "save"})
        => /\ req[r].qty >= 1
           /\ req[r].qty <= 100

\* C25: a successful addToCart never decreases the quantity of any item nor
\* the cart's totalItems: the quantity of p after the call is >= its quantity
\* before the call.
C25_AddNeverDecreases ==
    [][\A r \in Slots :
        (/\ AddItemStep(r)
         /\ req[r].cid # 0
         /\ last'.status = 200)
        => /\ Len(CartAfter(r).items) >= Len(CartBefore(r).items)
           /\ \A j \in 1..Len(CartBefore(r).items) :
                CartAfter(r).items[j].quantity >= CartBefore(r).items[j].quantity
           /\ CartAfter(r).totalItems >= CartBefore(r).totalItems]_vars

\* C25 for requests whose quantity is at least 1, on carts that were sound
C25_AddOfPositiveNeverDecreases ==
    [][\A r \in Slots :
        (/\ AddItemStep(r)
         /\ req[r].cid # 0
         /\ req[r].qty >= 1
         /\ SoundCart(CartBefore(r))
         /\ last'.status = 200)
        => /\ Len(CartAfter(r).items) >= Len(CartBefore(r).items)
           /\ \A j \in 1..Len(CartBefore(r).items) :
                CartAfter(r).items[j].quantity >= CartBefore(r).items[j].quantity
           /\ CartAfter(r).totalItems >= CartBefore(r).totalItems]_vars

\* ---- what reads and catalog writes leave alone ---------------------------

\* C24: getCart on an existing cart, and any change of a product's price or
\* stock in the catalog, leave every stored cart unchanged (items, each
\* unitPrice, totalItems, totalPrice): the only write getCart ever performs is
\* creating an empty cart when none exists, and the stored snapshot price is
\* never reconciled with the live price.
C24_ReadsAndCatalogWritesKeepCarts ==
    [][/\ GetAnsweredAtOnce => UNCHANGED carts
       /\ products' # products => UNCHANGED carts
       /\ \A r \in Slots :
            /\ (nops' = nops + 1 /\ req[r].pc = "idle" /\ req'[r].op = "get")
                    => UNCHANGED carts
            /\ (req[r].op = "get" /\ Answers(r)) =>
                    \/ UNCHANGED carts
                    \/ /\ FindOne(carts, req[r].user) = 0
                       /\ carts' = Append(carts,
                                [user |-> req[r].user, items |-> <<>>,
                                 totalItems |-> 0, totalPrice |-> 0, v |-> 0])]_vars

\* C24 witness: the catalog price of a product was changed and a cart still
\* holds the product at the price it had when it was added
C24_Witness ==
    /\ last = NoResponse
    /\ \A r \in Slots : req[r].pc = "idle"
    /\ \E i \in CartIds : \E j \in 1..Len(carts[i].items) :
          LET it == carts[i].items[j] IN
          /\ products[it.product].state = "live"
          /\ products[it.product].price # it.price
          /\ carts[i].totalPrice = SumCosts(carts[i].items)

\* C26: after a successful updateQuantity(u, p, q) with q > 0, the stored
\* quantity of p equals min(q, 100) and does not exceed the stock of p that
\* the request read from the catalog.
C26_UpdateWithinStockRead ==
    [][\A r \in Slots :
        (/\ UpdateItemStep(r)
         /\ Undisturbed(r)
         /\ req[r].qty > 0
         /\ last'.status = 200)
        => LET i == FindItem(CartAfter(r).items, req[r].product) IN
           /\ i # 0
           /\ CartAfter(r).items[i].quantity = Min(req[r].qty, 100)
           /\ CartAfter(r).items[i].quantity <= req[r].stock]_vars

\* C26 witness: an update to all that is in stock was served and stored
C26_Witness ==
    /\ last.op = "update"
    /\ last.status = 200
    /\ last.qty > 0
    /\ products[last.product].state = "live"
    /\ last.qty = products[last.product].stock
    /\ \E i \in CartIds :
          /\ carts[i].user = last.user
          /\ Len(carts[i].items) = 1
          /\ carts[i].items[1].product = last.product
          /\ carts[i].items[1].quantity = last.qty

\* ---- frame of the cart operations ----------------------------------------

\* slot r's add, update or remove saves and is answered 200 in this step, on
\* the cart as stored
ItemOperationStep(r) ==
    /\ req[r].op \in {"add", "update", "remove"}
    /\ req[r].pc = "save"
    /\ req[r].cid # 0
    /\ Answers(r)
    /\ Undisturbed(r)
    /\ last'.status = 200

\* C27: every cart operation on product p (addToCart, updateQuantity,
\* removeFromCart) leaves every other item of the cart unchanged in productId,
\* quantity and unitPrice, and keeps the relative order of the remaining
\* items; a newly added item is appended at the end.
C27_OtherItemsKept ==
    [][\A r \in Slots :
        ItemOperationStep(r)
        => LET before == CartBefore(r).items
               after == CartAfter(r).items
               p == req[r].product
           IN  /\ Others(after, p) = Others(before, p)
               /\ \A j \in 1..Len(before) :
                    (before[j].product # p /\ j <= Len(after)
                        /\ Len(after) >= Len(before)) => after[j] = before[j]
               /\ (req[r].op = "add" /\ FindItem(before, p) = 0) =>
                    /\ Len(after) = Len(before) + 1
                    /\ SubSeq(after, 1, Len(before)) = before
                    /\ after[Len(after)].product = p]_vars

\* C27 witness: an addToCart was served that appended its item behind an item
\* of another product
C27_Witness ==
    /\ last.op = "add"
    /\ last.status = 200
    /\ \E i \in CartIds :
          /\ carts[i].user = last.user
          /\ Len(carts[i].items) = 2
          /\ carts[i].items[1].product # last.product
          /\ carts[i].items[2].product = last.product
          /\ carts[i].totalItems = SumQuantities(carts[i].items)

\* ---- whose cart a request touches -----------------------------------------

\* C28: a cart request of user u reads and writes only u's cart: for every
\* user v different from u, every getCart, addToCart, updateQuantity,
\* removeFromCart and clearCart issued by u leaves v's cart (existence, items,
\* totals) unchanged.
C28_OnlyTheOwnCart ==
    [][/\ Len(carts') >= Len(carts)
       /\ \A r \in Slots :
            req[r].cid # 0 => carts[req[r].cid].user = req[r].user
       /\ \A i \in 1..Len(carts') :
            (i > Len(carts) \/ carts'[i] # carts[i])
            => \E r \in Slots : Answers(r) /\ req[r].user = carts'[i].user]_vars

\* C28 witness: two users have a cart each, and the last request, an
\* addToCart of the second one, filled only its own
C28_Witness ==
    /\ Len(carts) = 2
    /\ carts[1].user # carts[2].user
    /\ last.op = "add"
    /\ last.status = 200
    /\ last.user = carts[2].user
    /\ carts[1].items = <<>>
    /\ carts[2].items # <<>>

\* ---- the catalog ---------------------------------------------------------

\* C29: no cart operation changes the catalog: addToCart, updateQuantity,
\* removeFromCart and clearCart (and getCart) never modify a product's stock
\* or price; stock is checked but not reserved or decremented, so the sum of
\* the quantities of p over all users' carts can exceed stock(p).
C29_CartRequestsKeepCatalog ==
    [][(req' # req \/ carts' # carts \/ last'.op # "none")
        => UNCHANGED products]_vars

\* C29 witness: with the catalog as it was at the start, two users' carts
\* hold together more of p1 than is in stock, each within the stock
C29_Witness ==
    /\ products["p1"] = P1
    /\ Len(carts) = 2
    /\ carts[1].user # carts[2].user
    /\ Len(carts[1].items) = 1
    /\ Len(carts[2].items) = 1
    /\ carts[1].items[1].product = "p1"
    /\ carts[2].items[1].product = "p1"
    /\ carts[1].items[1].quantity <= P1.stock
    /\ carts[2].items[1].quantity <= P1.stock
    /\ carts[1].items[1].quantity + carts[2].items[1].quantity > P1.stock

\* ---- a product deleted from the catalog ----------------------------------

\* product p is deleted in this step
Deleted(p) == products[p].state = "live" /\ products'[p].state = "deleted"

\* an add or update request for a deleted product arrives in this step and is
\* answered at once
AnsweredForDeleted ==
    /\ nops' = nops + 1
    /\ last'.op \in {"add", "update"}
    /\ last'.product \in ProductIds
    /\ products[last'.product].state = "deleted"

\* a request for a product goes on past the catalog lookup in this step
GoesOnPastLookup(r) ==
    /\ nops' = nops + 1
    /\ req[r].pc = "idle"
    /\ req'[r].op \in {"add", "update"}

\* some stored cart loses its item of a deleted product in this step
DeletedProductLeavesACart ==
    \E i \in CartIds : \E p \in ProductIds :
        /\ products[p].state = "deleted"
        /\ \E j \in 1..Len(carts[i].items) : carts[i].items[j].product = p
        /\ \A j \in 1..Len(carts'[i].items) : carts'[i].items[j].product # p

\* C30 as claimed: deleting product p leaves every cart item that references p
\* in place and counted in the totals; afterwards addToCart(u, p, q) and
\* updateQuantity(u, p, q) for every q, including q = 0, fail with
\* ProductNotFound (404) and leave the cart unchanged.  (A response to an
\* update that carries quantity 0 and status 400 is that of a request without
\* quantity, of which the claim does not speak.)
C30_DeletedProductNotFound ==
    [][/\ \A p \in ProductIds : Deleted(p) => UNCHANGED carts
       /\ AnsweredForDeleted =>
            /\ UNCHANGED carts
            /\ \/ last'.status = 404
               \/ last'.op = "update" /\ last'.qty = 0 /\ last'.status = 400
       /\ \A r \in Slots :
            GoesOnPastLookup(r) => products[req'[r].product].state = "live"]_vars

\* C30 amended: deleting p leaves every cart item of p in place and counted;
\* afterwards addToCart(u, p, q) fails with ProductNotFound (404) for every q,
\* and updateQuantity(u, p, q) fails with ProductNotFound (404) for every
\* q >= 0 and with ValidationError (400) when q is negative or absent; none
\* reaches the cart, which stays unchanged, so that only removeFromCart,
\* clearCart or an updateQuantity that had read the product before the
\* deletion take the item out.  (A response to an update that carries
\* quantity 0 and status 400 is that of a request without quantity.)
C30_DeletedProductRefused ==
    [][/\ \A p \in ProductIds : Deleted(p) => UNCHANGED carts
       /\ AnsweredForDeleted =>
            /\ UNCHANGED carts
            /\ last'.status \in {400, 404}
            /\ last'.op = "add" => last'.status = 404
            /\ (last'.op = "update" /\ last'.qty > 0) => last'.status = 404
            /\ (last'.op = "update" /\ last'.qty < 0) => last'.status = 400
       /\ \A r \in Slots :
            GoesOnPastLookup(r) => products[req'[r].product].state = "live"
       /\ DeletedProductLeavesACart =>
            \E r \in Slots :
                /\ Answers(r)
                /\ req[r].op \in {"remove", "clear", "update"}]_vars

\* C30 witness: a cart holds an item of a deleted product, and an update of it
\* to 0 was answered 404
C30_Witness ==
    /\ last.op = "update"
    /\ last.qty = 0
    /\ last.status = 404
    /\ products[last.product].state = "deleted"
    /\ \E i \in CartIds :
          /\ carts[i].user = last.user
          /\ \E j \in 1..Len(carts[i].items) :
                carts[i].items[j].product = last.product
          /\ carts[i].totalItems = SumQuantities(carts[i].items)
          /\ carts[i].totalItems > 0

====
